---------------------------- MODULE Spec2Model ----------------------------
(***************************************************************************)
(* Hydroficient water-sensor telemetry: the WaterSensor reading generator  *)
(* and its multi-device driver (sensor_publisher.py) and the dashboard     *)
(* subscriber with its anomaly classifier (dashboard_subscriber.py).       *)
(*                                                                         *)
(* Units.  Sensor values are Python floats rounded to one decimal place;   *)
(* they are modelled as integers counting tenths (82.0 PSI is 820).  The   *)
(* raw value before rounding, base + random.uniform(a, b), is modelled in  *)
(* hundredths, so that round(x, 1) is a real conversion.                   *)
(***************************************************************************)
EXTENDS Integers, Sequences, FiniteSets, TLC

VARIABLES
    sensor,     \* device -> the WaterSensor object's fields (NoSensor before __init__)
    client,     \* device -> state of the sensor's MQTT client
    returned,   \* device -> counters of the readings the generation calls returned, in call order
    ret,        \* the reading returned by the latest direct generation call (API use)
    alerts,     \* the alerts list display_reading built for the latest record
    mainpc,     \* position of the main thread of sensor_publisher.py
    pc,         \* device -> position of the device's thread
    cur,        \* device -> the reading held by publish_reading between get_reading and publish
    published,  \* device -> what was handed to client.publish, in order
    lastrc,     \* device -> result code of the device's latest client.publish call
    console,    \* device -> lines the device's loop printed
    dash,       \* state of the dashboard's loop_forever
    msg,        \* the latest message delivered to the dashboard's on_message
    outcome,    \* what on_message did with the latest message
    nmsgs,      \* number of messages delivered to the dashboard
    tlspc,      \* position of publisher_tls.main
    tlslink,    \* state of the TLS publisher's MQTT session
    zone_index, \* publisher_tls.main's zone_index
    tlsSent,    \* topic and result code of every client.publish call of the TLS publisher
    tlsMsg,     \* the message of the TLS publisher's latest tick
    tlsLog,     \* the latest line the TLS publisher logged
    exppc,      \* position of the experiment method of the ExperimentRunner
    experiment, \* the experiment called and its number of sends
    expclient,  \* the runner's MQTT client: its network loop and its session
    connected,  \* ExperimentRunner.connected
    latencies,  \* ExperimentRunner.latencies: who appended and for which message
    messages_received, \* ExperimentRunner.messages_received
    expsent,    \* iterations of the experiment's sending loop done so far
    echoes      \* messages the broker still has to hand back on the subscribed topic

vars == <<sensor, client, returned, ret, alerts, mainpc, pc, cur, published,
          lastrc, console, dash, msg, outcome, nmsgs,
          tlspc, tlslink, zone_index, tlsSent, tlsMsg, tlsLog,
          exppc, experiment, expclient, connected, latencies, messages_received,
          expsent, echoes>>

expVars == <<exppc, experiment, expclient, connected, latencies, messages_received,
             expsent, echoes>>

threadVars == <<mainpc, pc, cur, published, lastrc, console>>
dashVars   == <<dash, msg, outcome, nmsgs>>
tlsVars    == <<tlspc, tlslink, zone_index, tlsSent, tlsMsg, tlsLog>>
sensorVars == <<sensor, client, returned, ret, alerts>>

----------------------------------------------------------------------------
(* Bounds of the model *)

\* direct generation calls per sensor
MaxCalls == 3
\* ticks of one device's driver loop
MaxTicks == 2
\* messages delivered to the dashboard
MaxMsgs == 2
\* ticks of the TLS publisher's loop
MaxZoneTicks == 4
\* largest count (or number of loop passes) of an experiment
MaxCount == 2
\* width (hundredths) of the sampled band at each end of a uniform range, API use
Grain == 5
\* the same, for the readings of the device threads
TickGrain == 1
\* width (tenths) of the band of field values sampled around each threshold
Near == 1

----------------------------------------------------------------------------
(* Program constants (tenths) *)

pressure_upstream_base == 820
pressure_downstream_base == 760
flow_rate_base == 400

\* thresholds of display_reading
HighUpstream == 900
LowDownstream == 650
HighFlow == 600
LowFlow == 200

\* the devices list of sensor_publisher.py
Devices == {1, 2, 3}

device_ids == <<"GM-HYDROLOGIC-01", "GM-HYDROLOGIC-02", "GM-HYDROLOGIC-03">>
locations == <<"main-building", "pool-wing", "main-kitchen">>

----------------------------------------------------------------------------
(* Values of Python dicts / JSON documents *)

Num(n) == [t |-> "num", n |-> n, s |-> ""]
Str(s) == [t |-> "str", n |-> 0, s |-> s]
Null == [t |-> "null", n |-> 0, s |-> ""]

\* dict.get(key, default)
Get(data, key, default) == IF key \in DOMAIN data THEN data[key] ELSE default

NoSensor == [count |-> -1]
NoReading == [scenario |-> "none"]
NoDoc == [kind |-> "none", members |-> <<>>]
NoMessage == [topic |-> <<>>, payload |-> [enc |-> "none", wellformed |-> FALSE, doc |-> NoDoc]]

----------------------------------------------------------------------------
(* random.uniform and round *)

\* sampled values (hundredths) of random.uniform(a, b): a band at each end
Uniform(a, b, g) == {a + i : i \in 0..g} \cup {b - i : i \in 0..g}

\* round(x, 1) of a positive x given in hundredths: the results in tenths.  A
\* decimal tie x.x5 is not exactly representable in binary, so the float lies
\* on either side of it and both neighbours are possible.
Round1(h) ==
    IF h % 10 = 5 THEN {h \div 10, h \div 10 + 1}
    ELSE {(h + 5) \div 10}

\* round(base + u, 1), base in tenths, u in hundredths
Rounded(base, u) == Round1(base * 10 + u)

----------------------------------------------------------------------------
(* WaterSensor *)

Topic(location) == <<"hydroficient", "grandmarina", "sensors", location, "readings">>

\* the same f-string for a location given as its levels: "a/b" is <<"a", "b">>,
\* the empty location is <<"">>
LocationTopic(levels) == <<"hydroficient", "grandmarina", "sensors">> \o levels \o <<"readings">>

\* WaterSensor.__init__: the fields set by the constructor
NewSensor(d) ==
    [device_id |-> device_ids[d],
     location |-> locations[d],
     count |-> 0,
     topic |-> Topic(locations[d]),
     pressure_upstream_base |-> pressure_upstream_base,
     pressure_downstream_base |-> pressure_downstream_base,
     flow_rate_base |-> flow_rate_base]

\* faulty variant: the call also re-calibrates the flow baseline
IncCountAndDrift(s, d) == [s EXCEPT ![d].count = @ + 1, ![d].flow_rate_base = @ + 1]
\* faulty variants: the increment left out; count kept on the class, shared by all sensors
IncCountForgotten(s, d) == s
IncCountShared(s, d) == [e \in DOMAIN s |-> IF s[e] = NoSensor THEN s[e] ELSE [s[e] EXCEPT !.count = @ + 1]]
\* self.count += 1 on sensor d
IncCount(s, d) == [s EXCEPT ![d].count = @ + 1]

\* the dict get_reading returns
NormalDict(self, up, down, flow) ==
    [device_id |-> Str(self.device_id),
     location |-> Str(self.location),
     timestamp |-> Str("utc-now"),
     counter |-> Num(self.count),
     pressure_upstream |-> Num(up),
     pressure_downstream |-> Num(down),
     flow_rate |-> Num(flow)]

\* the dict the three anomaly generators return (no location key)
AnomalyDict(self, up, down, flow) ==
    [device_id |-> Str(self.device_id),
     counter |-> Num(self.count),
     timestamp |-> Str("utc-now"),
     pressure_upstream |-> Num(up),
     pressure_downstream |-> Num(down),
     flow_rate |-> Num(flow)]

\* faulty variant: the pressure offsets drawn from (-3, 3)
GetReadingResultsWidePressure(self, g) ==
    {NormalDict(self, up, down, flow) :
        up \in UNION {Rounded(self.pressure_upstream_base, u) : u \in Uniform(-300, 300, g)},
        down \in UNION {Rounded(self.pressure_downstream_base, u) : u \in Uniform(-300, 300, g)},
        flow \in UNION {Rounded(self.flow_rate_base, u) : u \in Uniform(-300, 300, g)}}
\* faulty variant: the flow offset drawn from (-30, 30)
GetReadingResultsWideFlow(self, g) ==
    {NormalDict(self, up, down, flow) :
        up \in UNION {Rounded(self.pressure_upstream_base, u) : u \in Uniform(-200, 200, g)},
        down \in UNION {Rounded(self.pressure_downstream_base, u) : u \in Uniform(-200, 200, g)},
        flow \in UNION {Rounded(self.flow_rate_base, u) : u \in Uniform(-3000, 3000, g)}}
\* the possible results of get_reading on a sensor whose count was already incremented
GetReadingResults(self, g) ==
    {NormalDict(self, up, down, flow) :
        up \in UNION {Rounded(self.pressure_upstream_base, u) : u \in Uniform(-200, 200, g)},
        down \in UNION {Rounded(self.pressure_downstream_base, u) : u \in Uniform(-200, 200, g)},
        flow \in UNION {Rounded(self.flow_rate_base, u) : u \in Uniform(-300, 300, g)}}

\* faulty variant: the leak offset drawn from (30, 80)
GetLeakReadingResultsFrom30(self, g) ==
    {AnomalyDict(self, up, down, flow) :
        up \in UNION {Rounded(self.pressure_upstream_base, u) : u \in Uniform(-200, 200, g)},
        down \in UNION {Rounded(self.pressure_downstream_base, u) : u \in Uniform(-200, 200, g)},
        flow \in UNION {Rounded(self.flow_rate_base, u) : u \in Uniform(3000, 8000, g)}}
\* the possible results of get_leak_reading
GetLeakReadingResults(self, g) ==
    {AnomalyDict(self, up, down, flow) :
        up \in UNION {Rounded(self.pressure_upstream_base, u) : u \in Uniform(-200, 200, g)},
        down \in UNION {Rounded(self.pressure_downstream_base, u) : u \in Uniform(-200, 200, g)},
        flow \in UNION {Rounded(self.flow_rate_base, u) : u \in Uniform(4000, 8000, g)}}

GetBlockageReadingResults(self, g) ==
    {AnomalyDict(self, up, down, flow) :
        up \in UNION {Rounded(self.pressure_upstream_base, u) : u \in Uniform(800, 2000, g)},
        down \in UNION {Rounded(self.pressure_downstream_base, u) : u \in Uniform(-5000, -2000, g)},
        flow \in UNION {Rounded(self.flow_rate_base, u) : u \in Uniform(-300, 300, g)}}

\* faulty variant: the stuck value drawn around the flow baseline
GetStuckReadingResultsFromFlowBase(self, g) ==
    {AnomalyDict(self, v, v, v) :
        v \in UNION {Rounded(self.flow_rate_base, u) : u \in Uniform(-200, 200, g)}}
\* faulty variant: each of the three fields drawn on its own
GetStuckReadingResultsSeparateDraws(self, g) ==
    {AnomalyDict(self, up, down, flow) :
        up \in UNION {Rounded(self.pressure_upstream_base, u) : u \in Uniform(-200, 200, g)},
        down \in UNION {Rounded(self.pressure_upstream_base, u) : u \in Uniform(-200, 200, g)},
        flow \in UNION {Rounded(self.pressure_upstream_base, u) : u \in Uniform(-200, 200, g)}}
\* the possible results of get_stuck_reading: one draw, used for all three fields
GetStuckReadingResults(self, g) ==
    {AnomalyDict(self, up, up, up) :
        up \in UNION {Rounded(self.pressure_upstream_base, u) : u \in Uniform(-200, 200, g)}}

----------------------------------------------------------------------------
(* display_reading: the anomaly classifier of the dashboard *)

IsNum(v) == v.t = "num"

\* faulty variants: the leak threshold of the WaterSensor docstring (80); non-strict comparisons
AlertsLeakAtDocumented80(up, down, flow) ==
    (IF up > HighUpstream THEN <<"HIGH UPSTREAM PRESSURE">> ELSE <<>>)
    \o (IF down < LowDownstream THEN <<"LOW DOWNSTREAM PRESSURE">> ELSE <<>>)
    \o (IF flow > HighFlow + 200 THEN <<"HIGH FLOW RATE - POSSIBLE LEAK">> ELSE <<>>)
    \o (IF flow < LowFlow THEN <<"LOW FLOW RATE - POSSIBLE BLOCKAGE">> ELSE <<>>)
AlertsStrictnessLost(up, down, flow) ==
    (IF up >= HighUpstream THEN <<"HIGH UPSTREAM PRESSURE">> ELSE <<>>)
    \o (IF down <= LowDownstream THEN <<"LOW DOWNSTREAM PRESSURE">> ELSE <<>>)
    \o (IF flow >= HighFlow THEN <<"HIGH FLOW RATE - POSSIBLE LEAK">> ELSE <<>>)
    \o (IF flow <= LowFlow THEN <<"LOW FLOW RATE - POSSIBLE BLOCKAGE">> ELSE <<>>)
\* the alerts list display_reading builds, for numeric up, down, flow (tenths)
AlertsFor(up, down, flow) ==
    (IF up > HighUpstream THEN <<"HIGH UPSTREAM PRESSURE">> ELSE <<>>)
    \o (IF down < LowDownstream THEN <<"LOW DOWNSTREAM PRESSURE">> ELSE <<>>)
    \o (IF flow > HighFlow THEN <<"HIGH FLOW RATE - POSSIBLE LEAK">> ELSE <<>>)
    \o (IF flow < LowFlow THEN <<"LOW FLOW RATE - POSSIBLE BLOCKAGE">> ELSE <<>>)

\* display_reading(data) for a dict: the exception it raises ("none" when it
\* returns) and the alerts it displayed.  A comparison of a non-number with a
\* number raises TypeError.
DisplayReading(data) ==
    LET up == Get(data, "pressure_upstream", Num(0))
        down == Get(data, "pressure_downstream", Num(0))
        flow == Get(data, "flow_rate", Num(0))
    IN  IF IsNum(up) /\ IsNum(down) /\ IsNum(flow)
        THEN [exc |-> "none", alerts |-> AlertsFor(up.n, down.n, flow.n)]
        ELSE [exc |-> "TypeError", alerts |-> <<>>]

Range(seq) == {seq[i] : i \in 1..Len(seq)}

----------------------------------------------------------------------------
(* Direct use of one constructed WaterSensor: any mix of the four generation *)
(* calls, each returned reading shown to display_reading.                    *)

Results(scenario, self, g) ==
    CASE scenario = "normal" -> GetReadingResults(self, g)
      [] scenario = "leak" -> GetLeakReadingResults(self, g)
      [] scenario = "blockage" -> GetBlockageReadingResults(self, g)
      [] scenario = "stuck" -> GetStuckReadingResults(self, g)

\* one call of a generation method on sensor d, its result classified
Call(d, scenario) ==
    /\ sensor[d] # NoSensor
    /\ Len(returned[d]) < MaxCalls
    /\ LET s2 == IncCount(sensor, d)
       IN  /\ sensor' = s2
           /\ \E r \in Results(scenario, s2[d], Grain) :
                /\ ret' = [scenario |-> scenario, device |-> d, reading |-> r]
                /\ returned' = [returned EXCEPT ![d] = Append(@, r.counter.n)]
                /\ alerts' = DisplayReading(r).alerts
    /\ UNCHANGED <<expVars, client, threadVars, dashVars, tlsVars>>

CallGetReading(d) == Call(d, "normal")
CallGetLeakReading(d) == Call(d, "leak")
CallGetBlockageReading(d) == Call(d, "blockage")
CallGetStuckReading(d) == Call(d, "stuck")

InitCommon ==
    /\ returned = [d \in Devices |-> <<>>]
    /\ ret = NoReading
    /\ alerts = <<>>
    /\ mainpc = "start"
    /\ pc = [d \in Devices |-> "unstarted"]
    /\ cur = [d \in Devices |-> NoReading]
    /\ published = [d \in Devices |-> <<>>]
    /\ lastrc = [d \in Devices |-> "none"]
    /\ console = [d \in Devices |-> <<>>]
    /\ dash = "connecting"
    /\ msg = NoMessage
    /\ outcome = [handler |-> "none", report |-> "none", exc |-> "none"]
    /\ nmsgs = 0
    /\ tlspc = "start"
    /\ tlslink = "none"
    /\ zone_index = 0
    /\ tlsSent = <<>>
    /\ tlsMsg = NoMessage
    /\ tlsLog = "none"
    /\ exppc = "idle"
    /\ experiment = [name |-> "none", count |-> 0]
    /\ expclient = [loop |-> "none", link |-> "none"]
    /\ connected = FALSE
    /\ latencies = <<>>
    /\ messages_received = 0
    /\ expsent = 0
    /\ echoes = <<>>

\* sensors already constructed and connected
InitApi ==
    /\ sensor = [d \in Devices |-> NewSensor(d)]
    /\ client = [d \in Devices |-> "open"]
    /\ InitCommon

\* the sensor object used directly
ApiDevices == {1}

NextApi ==
    \E d \in ApiDevices :
        \/ CallGetReading(d)
        \/ CallGetLeakReading(d)
        \/ CallGetBlockageReading(d)
        \/ CallGetStuckReading(d)

SpecApi == InitApi /\ [][NextApi]_vars

----------------------------------------------------------------------------
(* sensor_publisher.py as a program: the main thread starts one daemon      *)
(* thread per device; each thread builds its own WaterSensor and runs       *)
(* run_continuous.                                                          *)

\* json.dumps of a reading dict: the JSON text, as the document it denotes
Dumps(data) == [enc |-> "utf8", wellformed |-> TRUE, doc |-> [kind |-> "object", members |-> data]]

\* result codes of client.publish
PublishCodes == {"MQTT_ERR_SUCCESS", "MQTT_ERR_NO_CONN"}

\* t.start() for the next device of the devices list
StartThread(d) ==
    /\ mainpc = "start"
    /\ pc[d] = "unstarted"
    /\ \A e \in Devices : e < d => pc[e] # "unstarted"
    /\ pc' = [pc EXCEPT ![d] = "init"]
    /\ UNCHANGED <<expVars, sensor, client, returned, ret, alerts, mainpc, cur, published,
                   lastrc, console, dashVars, tlsVars>>

\* all threads started: "All sensors running", then the main thread sleeps in its loop
MainWait ==
    /\ mainpc = "start"
    /\ \A d \in Devices : pc[d] # "unstarted"
    /\ mainpc' = "waiting"
    /\ UNCHANGED <<expVars, sensor, client, returned, ret, alerts, pc, cur, published,
                   lastrc, console, dashVars, tlsVars>>

\* what process exit does to a device thread: a daemon thread is abandoned
\* where it stands; nothing of its code runs any more
AtExit(p) == IF p \in {"unstarted", "crashed"} THEN p ELSE "killed"

\* Ctrl+C: Python raises KeyboardInterrupt in the main thread only.  In the
\* sleep loop it is caught, "Stopping all sensors." is printed, the module
\* ends and the process exits.
Interrupt ==
    /\ mainpc = "waiting"
    /\ mainpc' = "exited"
    /\ pc' = [d \in Devices |-> AtExit(pc[d])]
    /\ UNCHANGED <<expVars, sensor, client, returned, ret, alerts, cur, published,
                   lastrc, console, dashVars, tlsVars>>

\* Ctrl+C while the threads are still being started: outside the try block,
\* uncaught, the process ends with a traceback
InterruptWhileStarting ==
    /\ mainpc = "start"
    /\ mainpc' = "aborted"
    /\ pc' = [d \in Devices |-> AtExit(pc[d])]
    /\ UNCHANGED <<expVars, sensor, client, returned, ret, alerts, cur, published,
                   lastrc, console, dashVars, tlsVars>>

\* the process is still running
Alive == mainpc \notin {"exited", "aborted"}

\* run_sensor: WaterSensor(device_id, location); connect raises when the
\* broker cannot be reached, which ends the thread
Construct(d) ==
    /\ Alive
    /\ pc[d] = "init"
    /\ \E ok \in BOOLEAN :
         IF ok
         THEN /\ sensor' = [sensor EXCEPT ![d] = NewSensor(d)]
              /\ client' = [client EXCEPT ![d] = "open"]
              /\ pc' = [pc EXCEPT ![d] = "constructed"]
         ELSE /\ pc' = [pc EXCEPT ![d] = "crashed"]
              /\ UNCHANGED <<expVars, sensor, client>>
    /\ UNCHANGED <<expVars, returned, ret, alerts, mainpc, cur, published, lastrc, console, dashVars, tlsVars>>

\* run_continuous up to the loop: the banner
StartLoop(d) ==
    /\ Alive
    /\ pc[d] = "constructed"
    /\ console' = [console EXCEPT ![d] = Append(@, [kind |-> "banner", counter |-> 0])]
    /\ pc' = [pc EXCEPT ![d] = "loop"]
    /\ UNCHANGED <<expVars, sensor, client, returned, ret, alerts, mainpc, cur, published, lastrc, dashVars, tlsVars>>

\* publish_reading, first half: reading = self.get_reading()
Generate(d) ==
    /\ Alive
    /\ pc[d] = "loop"
    /\ sensor[d].count < MaxTicks
    /\ LET s2 == IncCount(sensor, d)
       IN  /\ sensor' = s2
           /\ \E r \in GetReadingResults(s2[d], TickGrain) :
                /\ cur' = [cur EXCEPT ![d] = r]
                /\ returned' = [returned EXCEPT ![d] = Append(@, r.counter.n)]
    /\ pc' = [pc EXCEPT ![d] = "publish"]
    /\ UNCHANGED <<expVars, client, ret, alerts, mainpc, published, lastrc, console, dashVars, tlsVars>>

\* what the loop prints for a tick: the reading line, whatever publish returned
TickLines(reading, rc) == <<[kind |-> "reading", counter |-> reading.counter.n]>>

\* faulty variant: the reading handed over twice
HandedTwice(self, reading) ==
    <<[topic |-> self.topic, counter |-> Dumps(reading).doc.members.counter.n],
      [topic |-> self.topic, counter |-> Dumps(reading).doc.members.counter.n]>>
\* what one call of publish_reading hands to client.publish
Handed(self, reading) ==
    <<[topic |-> self.topic, counter |-> Dumps(reading).doc.members.counter.n]>>

\* publish_reading, second half, and the rest of the tick:
\* client.publish(topic, json.dumps(reading)), the result discarded; the
\* reading is printed; time.sleep(interval)
PublishAndPrint(d) ==
    /\ Alive
    /\ pc[d] = "publish"
    /\ \E rc \in PublishCodes :
        /\ published' = [published EXCEPT ![d] = @ \o Handed(sensor[d], cur[d])]
        /\ lastrc' = [lastrc EXCEPT ![d] = rc]
        /\ console' = [console EXCEPT ![d] = @ \o TickLines(cur[d], rc)]
    /\ cur' = [cur EXCEPT ![d] = NoReading]
    /\ pc' = [pc EXCEPT ![d] = "loop"]
    /\ UNCHANGED <<expVars, sensor, client, returned, ret, alerts, mainpc, dashVars, tlsVars>>

\* (StopOnInterruptAndResume is a faulty variant: the except clause inside the
\* while loop, so that the loop goes on after the release)
\* run_continuous when it runs in the main thread of a process and Ctrl+C
\* arrives inside its try block: "Sensor stopped.", loop_stop(), disconnect().
\* The device threads of sensor_publisher.py never get here: Python delivers
\* KeyboardInterrupt to the main thread only.
StopOnInterruptAndResume(d) ==
    /\ mainpc = "solo"
    /\ pc[d] \in {"loop", "publish"}
    /\ console' = [console EXCEPT ![d] = Append(@, [kind |-> "stopped", counter |-> sensor[d].count])]
    /\ client' = [client EXCEPT ![d] = "closed"]
    /\ pc' = [pc EXCEPT ![d] = "loop"]
    /\ UNCHANGED <<expVars, sensor, returned, ret, alerts, mainpc, cur, published, lastrc, dashVars, tlsVars>>
StopOnInterrupt(d) ==
    /\ mainpc = "solo"
    /\ pc[d] \in {"loop", "publish"}
    /\ console' = [console EXCEPT ![d] = Append(@, [kind |-> "stopped", counter |-> sensor[d].count])]
    /\ client' = [client EXCEPT ![d] = "closed"]
    /\ pc' = [pc EXCEPT ![d] = "stopped"]
    /\ UNCHANGED <<expVars, sensor, returned, ret, alerts, mainpc, cur, published, lastrc, dashVars, tlsVars>>

\* Ctrl+C before run_continuous has entered its try block: nothing catches it
InterruptBeforeLoop(d) ==
    /\ mainpc = "solo"
    /\ pc[d] \in {"init", "constructed"}
    /\ mainpc' = "exited"
    /\ pc' = [pc EXCEPT ![d] = "killed"]
    /\ UNCHANGED <<expVars, sensor, client, returned, ret, alerts, cur, published, lastrc,
                   console, dashVars, tlsVars>>

Init ==
    /\ sensor = [d \in Devices |-> NoSensor]
    /\ client = [d \in Devices |-> "none"]
    /\ InitCommon

Next ==
    \/ \E d \in Devices : StartThread(d)
    \/ MainWait
    \/ Interrupt
    \/ InterruptWhileStarting
    \/ \E d \in Devices : Construct(d)
    \/ \E d \in Devices : StartLoop(d)
    \/ \E d \in Devices : Generate(d)
    \/ \E d \in Devices : PublishAndPrint(d)

Spec == Init /\ [][Next]_vars

\* run_sensor called in the main thread, for any one device of the list
InitSolo ==
    /\ sensor = [d \in Devices |-> NoSensor]
    /\ client = [d \in Devices |-> "none"]
    /\ returned = [d \in Devices |-> <<>>]
    /\ ret = NoReading
    /\ alerts = <<>>
    /\ mainpc = "solo"
    /\ \E d \in Devices : pc = [e \in Devices |-> IF e = d THEN "init" ELSE "unstarted"]
    /\ cur = [d \in Devices |-> NoReading]
    /\ published = [d \in Devices |-> <<>>]
    /\ lastrc = [d \in Devices |-> "none"]
    /\ console = [d \in Devices |-> <<>>]
    /\ dash = "connecting"
    /\ msg = NoMessage
    /\ outcome = [handler |-> "none", report |-> "none", exc |-> "none"]
    /\ nmsgs = 0
    /\ tlspc = "start"
    /\ tlslink = "none"
    /\ zone_index = 0
    /\ tlsSent = <<>>
    /\ tlsMsg = NoMessage
    /\ tlsLog = "none"
    /\ exppc = "idle"
    /\ experiment = [name |-> "none", count |-> 0]
    /\ expclient = [loop |-> "none", link |-> "none"]
    /\ connected = FALSE
    /\ latencies = <<>>
    /\ messages_received = 0
    /\ expsent = 0
    /\ echoes = <<>>

NextSolo ==
    \E d \in Devices :
        \/ Construct(d)
        \/ StartLoop(d)
        \/ Generate(d)
        \/ PublishAndPrint(d)
        \/ StopOnInterrupt(d)
        \/ InterruptBeforeLoop(d)

SpecSolo == InitSolo /\ [][NextSolo]_vars

----------------------------------------------------------------------------
(* dashboard_subscriber.py: on_connect subscribes, loop_forever delivers     *)
(* every matching message to on_message.                                     *)

\* the topic filter on_connect subscribes to, as levels
Subscription == <<"hydroficient", "grandmarina", "#">>

\* faulty variant: the trailing '#' taken for exactly one level, as '+' is
MatchesOneLevel(filter, topic) ==
    LET n == Len(filter) - 1
    IN  /\ filter[Len(filter)] = "#"
        /\ Len(topic) = n + 1
        /\ \A i \in 1..n : topic[i] = filter[i]
\* MQTT topic matching for a filter whose only wildcard is a trailing '#'
Matches(filter, topic) ==
    LET n == Len(filter) - 1
    IN  /\ filter[Len(filter)] = "#"
        /\ Len(topic) >= n
        /\ \A i \in 1..n : topic[i] = filter[i]

\* "/<level>/" in topic: the level occurs with a level before and after it
Contains(topic, level) == \E i \in 2..(Len(topic) - 1) : topic[i] = level

\* bytes that are not UTF-8
BinaryPayload == [enc |-> "binary", wellformed |-> FALSE, doc |-> NoDoc]
\* text that is not JSON
TextPayload == [enc |-> "utf8", wellformed |-> FALSE, doc |-> NoDoc]
\* JSON documents that are not objects
ArrayPayload == [enc |-> "utf8", wellformed |-> TRUE, doc |-> [kind |-> "array", members |-> <<>>]]
NumberPayload == [enc |-> "utf8", wellformed |-> TRUE, doc |-> [kind |-> "number", members |-> <<>>]]

\* field values around a threshold (tenths)
Around(t) == (t - Near)..(t + Near)

\* the readings a publisher can put on the wire, with values around the thresholds
WireReadings ==
    {Dumps(NormalDict(NewSensor(1), up, down, flow)) :
        up \in Around(HighUpstream), down \in Around(LowDownstream),
        flow \in Around(HighFlow) \cup Around(LowFlow)}

\* the same record with other members changed or left out
WireVariants ==
    {Dumps(AnomalyDict(NewSensor(d), up, LowDownstream, flow)) :
        d \in {2, 3}, up \in {HighUpstream, HighUpstream + 1}, flow \in {HighFlow, HighFlow + 1}}

\* objects with missing or non-numeric fields
BadObjects ==
    {Dumps([device_id |-> Str("x")]),
     Dumps([pressure_upstream |-> Num(HighUpstream + 1), flow_rate |-> Num(flow_rate_base)]),
     Dumps([pressure_upstream |-> Str("high"), pressure_downstream |-> Num(pressure_downstream_base),
            flow_rate |-> Num(flow_rate_base)]),
     Dumps([pressure_upstream |-> Num(pressure_upstream_base), pressure_downstream |-> Null,
            flow_rate |-> Num(flow_rate_base)]),
     Dumps([pressure_upstream |-> Num(pressure_upstream_base),
            pressure_downstream |-> Num(pressure_downstream_base), flow_rate |-> Str("40.0")])}

OtherTopics ==
    {<<"hydroficient", "grandmarina", "alerts", "leak">>,
     <<"hydroficient", "grandmarina", "commands", "valve">>,
     <<"hydroficient", "grandmarina", "status", "main-building">>,
     <<"hydroficient", "grandmarina", "alerts", "sensors", "x">>,
     <<"hydroficient", "grandmarina", "commands", "alerts", "x">>,
     <<"hydroficient", "grandmarina", "status", "commands", "x">>,
     <<"hydroficient", "grandmarina", "sensors">>,
     <<"hydroficient", "grandmarina">>}

\* locations a WaterSensor can be constructed with, besides those of devices:
\* names of the other branches, the empty string, several levels
OtherLocations ==
    {<<"alerts">>, <<"commands">>, <<"status">>, <<"sensors">>, <<"">>,
     <<"east", "alerts", "pump">>, <<"status", "commands">>}

\* messages the broker can deliver to the dashboard
DashMessages ==
    {[topic |-> LocationTopic(l), payload |-> p] :
        l \in OtherLocations, p \in {TextPayload, Dumps(NormalDict(NewSensor(1), pressure_upstream_base,
                                                                  pressure_downstream_base, flow_rate_base))}}
    \cup
    {[topic |-> Topic(locations[1]), payload |-> p] :
        p \in WireReadings \cup WireVariants \cup BadObjects
              \cup {BinaryPayload, TextPayload, ArrayPayload, NumberPayload}}
    \cup {[topic |-> Topic(locations[d]), payload |-> p] :
        d \in {2, 3}, p \in WireVariants \cup {TextPayload}}
    \cup {[topic |-> t, payload |-> p] :
        t \in OtherTopics, p \in {BinaryPayload, TextPayload, ArrayPayload}}

\* handle_sensor_reading(msg): json.loads(msg.payload.decode()), then
\* display_reading(data); only json.JSONDecodeError is caught
HandleSensorReading(m) ==
    IF m.payload.enc # "utf8"
    THEN [handler |-> "sensor", report |-> "none", exc |-> "UnicodeDecodeError", alerts |-> <<>>]
    ELSE IF ~m.payload.wellformed
    THEN [handler |-> "sensor", report |-> "raw", exc |-> "none", alerts |-> <<>>]
    ELSE IF m.payload.doc.kind # "object"
    THEN [handler |-> "sensor", report |-> "none", exc |-> "AttributeError", alerts |-> <<>>]
    ELSE LET r == DisplayReading(m.payload.doc.members)
         IN  [handler |-> "sensor",
              report |-> IF r.exc = "none" THEN "reading" ELSE "none",
              exc |-> r.exc, alerts |-> r.alerts]

\* handle_alert, handle_command, handle_status: print the topic and msg.payload.decode()
HandlePrint(m, handler) ==
    IF m.payload.enc # "utf8"
    THEN [handler |-> handler, report |-> "none", exc |-> "UnicodeDecodeError", alerts |-> <<>>]
    ELSE [handler |-> handler, report |-> handler, exc |-> "none", alerts |-> <<>>]

\* faulty variant: the alerts branch tested before the sensors branch
OnMessageAlertsFirst(m) ==
    IF Contains(m.topic, "alerts") THEN HandlePrint(m, "alert")
    ELSE IF Contains(m.topic, "sensors") THEN HandleSensorReading(m)
    ELSE IF Contains(m.topic, "commands") THEN HandlePrint(m, "command")
    ELSE IF Contains(m.topic, "status") THEN HandlePrint(m, "status")
    ELSE [handler |-> "unknown", report |-> "unknown", exc |-> "none", alerts |-> <<>>]
\* on_message: dispatch on the first substring the topic contains
OnMessage(m) ==
    IF Contains(m.topic, "sensors") THEN HandleSensorReading(m)
    ELSE IF Contains(m.topic, "alerts") THEN HandlePrint(m, "alert")
    ELSE IF Contains(m.topic, "commands") THEN HandlePrint(m, "command")
    ELSE IF Contains(m.topic, "status") THEN HandlePrint(m, "status")
    ELSE [handler |-> "unknown", report |-> "unknown", exc |-> "none", alerts |-> <<>>]

\* client.connect("localhost", 1883) raises when the broker cannot be reached;
\* otherwise on_connect prints the banner and subscribes
DashConnect ==
    /\ dash = "connecting"
    /\ \E ok \in BOOLEAN : dash' = IF ok THEN "listening" ELSE "failed"
    /\ UNCHANGED <<expVars, sensor, client, returned, ret, alerts, threadVars, msg, outcome, nmsgs, tlsVars>>

\* loop_forever delivers one message to on_message.  An exception that leaves
\* the callback is re-raised by the client (suppress_exceptions is off by
\* default), leaves loop_forever and ends the script.
Deliver ==
    /\ dash = "listening"
    /\ nmsgs < MaxMsgs
    /\ \E m \in DashMessages :
        /\ Matches(Subscription, m.topic)
        /\ msg' = m
        /\ LET o == OnMessage(m)
           IN  /\ outcome' = [handler |-> o.handler, report |-> o.report, exc |-> o.exc]
               /\ alerts' = o.alerts
               /\ dash' = IF o.exc = "none" THEN "listening" ELSE "crashed"
    /\ nmsgs' = nmsgs + 1
    /\ UNCHANGED <<expVars, sensor, client, returned, ret, threadVars, tlsVars>>

NextDash == DashConnect \/ Deliver

SpecDash == Init /\ [][NextDash]_vars

----------------------------------------------------------------------------
(* project-04/publisher_tls.py: one client, one loop over the hotel zones *)

HOTEL_ZONES ==
    <<[zone_id |-> "main_building", zone_name |-> "Main Building",
       topic |-> <<"grandmarina", "sensors", "main_building", "telemetry">>,
       base_pressure |-> 820, base_flow |-> 450],
      [zone_id |-> "pool_spa", zone_name |-> "Pool & Spa",
       topic |-> <<"grandmarina", "sensors", "pool_spa", "telemetry">>,
       base_pressure |-> 780, base_flow |-> 620],
      [zone_id |-> "kitchen", zone_name |-> "Kitchen & Laundry",
       topic |-> <<"grandmarina", "sensors", "kitchen", "telemetry">>,
       base_pressure |-> 850, base_flow |-> 380]>>

\* the possible results of generate_sensor_data(zone)
GenerateSensorData(zone, g) ==
    {[device_id |-> Str("grandmarina-sensor-" \o zone.zone_id),
      ts |-> Str("now"),
      zone |-> Str(zone.zone_id),
      pressure_psi |-> Num(p),
      flow_rate_gpm |-> Num(f),
      valve_position |-> Num(v),
      temperature_f |-> Num(t),
      safety_status |-> Str("NORMAL")] :
        p \in UNION {Rounded(zone.base_pressure, u) : u \in Uniform(-300, 300, g)},
        f \in UNION {Rounded(zone.base_flow, u) : u \in Uniform(-500, 500, g)},
        v \in Uniform(40, 80, g),
        t \in UNION {Rounded(0, u) : u \in Uniform(5800, 7200, g)}}

\* json.dumps({"payload": sensor_data})
TlsMessage(sensor_data) ==
    [enc |-> "utf8", wellformed |-> TRUE,
     doc |-> [kind |-> "object",
              members |-> [payload |-> [kind |-> "object", members |-> sensor_data]]]]

\* result codes client.publish can return in a session state
TlsPublishCodes(link) ==
    IF link = "connected" THEN PublishCodes ELSE {"MQTT_ERR_NO_CONN"}

\* faulty variant: the index advanced in the success branch only
NextZoneIndexOnSuccess(zi, rc) ==
    IF rc = "MQTT_ERR_SUCCESS" THEN (zi + 1) % Len(HOTEL_ZONES) ELSE zi
\* zone_index after a tick whose publish returned rc
NextZoneIndex(zi, rc) == (zi + 1) % Len(HOTEL_ZONES)

\* main up to the client: the CA file is checked; without it main returns
TlsSetup ==
    /\ tlspc = "start"
    /\ \E ca_exists \in BOOLEAN :
         /\ tlspc' = IF ca_exists THEN "configured" ELSE "returned"
         /\ tlsLog' = IF ca_exists THEN "configuring" ELSE "error"
    /\ UNCHANGED <<expVars, sensorVars, threadVars, dashVars, tlslink, zone_index, tlsSent, tlsMsg>>

\* client.connect: an exception is logged and main returns; otherwise
\* loop_start() and time.sleep(2), with the CONNACK still to come
TlsConnect ==
    /\ tlspc = "configured"
    /\ \E ok \in BOOLEAN :
         IF ok
         THEN /\ tlspc' = "waiting"
              /\ tlslink' = "pending"
              /\ tlsLog' = "connecting"
         ELSE /\ tlspc' = "returned"
              /\ tlslink' = "none"
              /\ tlsLog' = "error"
    /\ UNCHANGED <<expVars, sensorVars, threadVars, dashVars, zone_index, tlsSent, tlsMsg>>

\* the network loop is running
TlsLoopRunning == tlspc \in {"waiting", "loop"}

\* on_connect, called by the network thread when the CONNACK arrives
TlsOnConnect ==
    /\ TlsLoopRunning
    /\ tlslink = "pending"
    /\ \E reason_code \in {0, 5} :
         /\ tlslink' = IF reason_code = 0 THEN "connected" ELSE "refused"
         /\ tlsLog' = IF reason_code = 0 THEN "connected" ELSE "error"
    /\ UNCHANGED <<expVars, sensorVars, threadVars, dashVars, tlspc, zone_index, tlsSent, tlsMsg>>

\* on_disconnect, called by the network thread when the session is lost
TlsOnDisconnect ==
    /\ TlsLoopRunning
    /\ tlslink = "connected"
    /\ tlslink' = "lost"
    /\ tlsLog' = "disconnected"
    /\ UNCHANGED <<expVars, sensorVars, threadVars, dashVars, tlspc, zone_index, tlsSent, tlsMsg>>

\* the two seconds are over: zone_index = 0 and the loop is entered,
\* whatever on_connect reported
TlsEnterLoop ==
    /\ tlspc = "waiting"
    /\ tlspc' = "loop"
    /\ zone_index' = 0
    /\ UNCHANGED <<expVars, sensorVars, threadVars, dashVars, tlslink, tlsSent, tlsMsg, tlsLog>>

\* one pass of the while loop: generate, publish with qos=1, log the result,
\* advance zone_index, time.sleep(3)
TlsTick ==
    /\ tlspc = "loop"
    /\ Len(tlsSent) < MaxZoneTicks
    /\ LET zone == HOTEL_ZONES[zone_index + 1]
       IN  \E sensor_data \in GenerateSensorData(zone, TickGrain),
              rc \in TlsPublishCodes(tlslink) :
                /\ tlsMsg' = [topic |-> zone.topic, payload |-> TlsMessage(sensor_data)]
                /\ tlsSent' = Append(tlsSent, [topic |-> zone.topic, rc |-> rc])
                /\ tlsLog' = IF rc = "MQTT_ERR_SUCCESS" THEN "published" ELSE "error"
                /\ zone_index' = NextZoneIndex(zone_index, rc)
    /\ UNCHANGED <<expVars, sensorVars, threadVars, dashVars, tlspc, tlslink>>

\* Ctrl+C inside the try block: "Shutting down...", then the finally clause:
\* loop_stop(), disconnect(), "Publisher stopped"
TlsInterrupt ==
    /\ tlspc = "loop"
    /\ tlspc' = "stopped"
    /\ tlslink' = "closed"
    /\ tlsLog' = "stopped"
    /\ UNCHANGED <<expVars, sensorVars, threadVars, dashVars, zone_index, tlsSent, tlsMsg>>

\* Ctrl+C before the try block is entered: uncaught, the finally clause does not run
TlsInterruptBeforeLoop ==
    /\ tlspc \in {"start", "configured", "waiting"}
    /\ tlspc' = "aborted"
    /\ UNCHANGED <<expVars, sensorVars, threadVars, dashVars, tlslink, zone_index, tlsSent, tlsMsg, tlsLog>>

NextTls ==
    \/ TlsSetup
    \/ TlsConnect
    \/ TlsOnConnect
    \/ TlsOnDisconnect
    \/ TlsEnterLoop
    \/ TlsTick
    \/ TlsInterrupt
    \/ TlsInterruptBeforeLoop

SpecTls == Init /\ [][NextTls]_vars

----------------------------------------------------------------------------
(* project-04/experiment_runner.py: one ExperimentRunner, one experiment *)

Experiments == {"publish", "latency", "stress"}

\* run_publish / run_latency_test / run_stress_test is called; count is the
\* number of passes of its sending loop
ExpStart ==
    /\ exppc = "idle"
    /\ \E name \in Experiments, count \in 1..MaxCount :
         experiment' = [name |-> name, count |-> count]
    /\ exppc' = "setup"
    /\ UNCHANGED <<sensorVars, threadVars, dashVars, tlsVars, expclient, connected,
                   latencies, messages_received, expsent, echoes>>

\* setup_client: the client is created; with TLS on and no CA file it returns
\* False and the experiment returns
ExpSetupClient ==
    /\ exppc = "setup"
    /\ \E ca_ok \in BOOLEAN :
         exppc' = IF ca_ok THEN "configured" ELSE "returned"
    /\ expclient' = [loop |-> "none", link |-> "none"]
    /\ UNCHANGED <<sensorVars, threadVars, dashVars, tlsVars, experiment, connected,
                   latencies, messages_received, expsent, echoes>>

\* connect(), first half: client.connect raises (caught, returns False and the
\* experiment returns) or loop_start() is called and the wait begins
ExpConnect ==
    /\ exppc = "configured"
    /\ \E ok \in BOOLEAN :
         IF ok
         THEN /\ exppc' = "waiting"
              /\ expclient' = [loop |-> "running", link |-> "pending"]
         ELSE /\ exppc' = "returned"
              /\ expclient' = expclient
    /\ UNCHANGED <<sensorVars, threadVars, dashVars, tlsVars, experiment, connected,
                   latencies, messages_received, expsent, echoes>>

\* _on_connect on the network thread
ExpOnConnect ==
    /\ expclient.loop = "running"
    /\ expclient.link = "pending"
    /\ \E reason_code \in {0, 5} :
         /\ expclient' = [expclient EXCEPT !.link = IF reason_code = 0 THEN "connected" ELSE "refused"]
         /\ connected' = IF reason_code = 0 THEN TRUE ELSE connected
    /\ UNCHANGED <<sensorVars, threadVars, dashVars, tlsVars, exppc, experiment,
                   latencies, messages_received, expsent, echoes>>

\* _on_disconnect on the network thread
ExpOnDisconnect ==
    /\ expclient.loop = "running"
    /\ expclient.link = "connected"
    /\ expclient' = [expclient EXCEPT !.link = "lost"]
    /\ connected' = FALSE
    /\ UNCHANGED <<sensorVars, threadVars, dashVars, tlsVars, exppc, experiment,
                   latencies, messages_received, expsent, echoes>>

\* connect(), second half: the wait ends with self.connected set, or after
\* the 5 s timeout without it; it returns self.connected.  On True
\* run_latency_test subscribes and sets self.latencies = []; on False the
\* experiment prints "Failed to connect!" and returns, without disconnect()
ExpConnectReturns ==
    /\ exppc = "waiting"
    /\ exppc' = IF connected THEN "sending" ELSE "returned"
    /\ latencies' = IF connected /\ experiment.name = "latency" THEN <<>> ELSE latencies
    /\ UNCHANGED <<sensorVars, threadVars, dashVars, tlsVars, experiment, expclient, connected,
                   messages_received, expsent, echoes>>

\* self.latencies after pass i of the sending loop: run_latency_test appends
\* the latency it measured itself
LoopSample(l, name, i) ==
    IF name = "latency" THEN Append(l, [by |-> "loop", seq |-> i]) ELSE l

\* one pass of the sending loop: client.publish(..., qos=1) and the sleep.
\* run_latency_test publishes {"sent_at", "seq"} on the topic it subscribed
\* to, so the broker hands the message back
ExpSend ==
    /\ exppc = "sending"
    /\ expsent < experiment.count
    /\ \E rc \in TlsPublishCodes(expclient.link) :
         echoes' = IF experiment.name = "latency" /\ rc = "MQTT_ERR_SUCCESS"
                   THEN Append(echoes, expsent) ELSE echoes
    /\ latencies' = LoopSample(latencies, experiment.name, expsent)
    /\ expsent' = expsent + 1
    /\ UNCHANGED <<sensorVars, threadVars, dashVars, tlsVars, exppc, experiment,
                   expclient, connected, messages_received>>

\* _on_message on the network thread, for a message handed back: its payload
\* has "sent_at", so a latency is appended
ExpOnMessage ==
    /\ expclient.loop = "running"
    /\ expclient.link = "connected"
    /\ echoes # <<>>
    /\ messages_received' = messages_received + 1
    /\ latencies' = Append(latencies, [by |-> "callback", seq |-> Head(echoes)])
    /\ echoes' = Tail(echoes)
    /\ UNCHANGED <<sensorVars, threadVars, dashVars, tlsVars, exppc, experiment,
                   expclient, connected, expsent>>

\* the loop is over: disconnect() (loop_stop, client.disconnect), the report
\* over self.latencies, return
ExpFinish ==
    /\ exppc = "sending"
    /\ expsent = experiment.count
    /\ exppc' = "returned"
    /\ expclient' = [loop |-> "stopped", link |-> "closed"]
    /\ UNCHANGED <<sensorVars, threadVars, dashVars, tlsVars, experiment, connected,
                   latencies, messages_received, expsent, echoes>>

NextExp ==
    \/ ExpStart
    \/ ExpSetupClient
    \/ ExpConnect
    \/ ExpOnConnect
    \/ ExpOnDisconnect
    \/ ExpConnectReturns
    \/ ExpSend
    \/ ExpOnMessage
    \/ ExpFinish

SpecExp == Init /\ [][NextExp]_vars

----------------------------------------------------------------------------
(* Claims about the reading counter *)

Iota(n) == [i \in 1..n |-> i]

\* C1: for one WaterSensor, after any mix of calls of the four generation
\* methods, the n-th call returned counter n: the count starts at 0, each call
\* adds exactly 1 before the reading is stamped, the count is never reset, and
\* no two readings of the sensor carry the same counter.
C1_CounterIsCallNumber ==
    \A d \in ApiDevices :
        /\ sensor[d].count = Len(returned[d])
        /\ \A i \in 1..Len(returned[d]) : returned[d][i] = i
        /\ \A i, j \in 1..Len(returned[d]) : i # j => returned[d][i] # returned[d][j]
        /\ ret # NoReading => ret.reading.counter.n = Len(returned[ret.device])

C1_Witness ==
    /\ Len(returned[1]) >= 3
    /\ ret.scenario = "stuck"
    /\ ret.reading.counter.n = 3

\* C2: with one thread and one WaterSensor per device running concurrently, in
\* every interleaving each device's counters are exactly 1..k for its own k
\* readings, and its count is its own number of readings: a generation on one
\* device never changes another device's counter.
C2_PerDeviceCounters ==
    \A d \in Devices :
        /\ returned[d] = Iota(Len(returned[d]))
        /\ sensor[d] # NoSensor => sensor[d].count = Len(returned[d])
        /\ sensor[d] = NoSensor => returned[d] = <<>>

C2_Witness ==
    /\ \A d \in Devices : Len(returned[d]) >= 2
    /\ pc[1] = "publish" /\ pc[2] = "publish" /\ pc[3] = "loop"

\* C3: for each device the readings handed to client.publish are the
\* generated readings in generation order, each exactly once: reading n is
\* handed over before reading n+1 is generated, none skipped, none repeated.
C3_PublishedInGenerationOrder ==
    \A d \in Devices :
        /\ Len(published[d]) <= Len(returned[d])
        /\ \A i \in 1..Len(published[d]) :
             /\ published[d][i].counter = returned[d][i]
             /\ published[d][i].topic = Topic(locations[d])
        /\ Len(returned[d]) - Len(published[d]) \in {0, 1}
        /\ pc[d] = "loop" => Len(published[d]) = Len(returned[d])
        /\ Len(returned[d]) > Len(published[d]) =>
             pc[d] \in {"publish", "killed"} /\ cur[d].counter.n = Len(returned[d])

C3_Witness ==
    \E d \in Devices :
        /\ Len(published[d]) >= 2
        /\ pc[d] = "loop"
        /\ published[d][2].counter = 2

----------------------------------------------------------------------------
(* Claims about the classifier *)

\* the message in hand is a reading: a JSON object on a sensors topic whose
\* three measured fields are present and numeric
IsReadingMessage ==
    /\ nmsgs > 0
    /\ outcome.handler = "sensor"
    /\ msg.payload.enc = "utf8" /\ msg.payload.wellformed
    /\ msg.payload.doc.kind = "object"
    /\ \A k \in {"pressure_upstream", "pressure_downstream", "flow_rate"} :
         k \in DOMAIN msg.payload.doc.members /\ msg.payload.doc.members[k].t = "num"

Up == msg.payload.doc.members.pressure_upstream.n
Down == msg.payload.doc.members.pressure_downstream.n
Flow == msg.payload.doc.members.flow_rate.n

\* C4: for every record the alert set display_reading computes is exactly the
\* set of labels whose rule holds, with strict comparisons against 90, 65, 60
\* and 20; it depends on the three measured fields only.
C4_AlertsAreExactlyTheRules ==
    IsReadingMessage =>
        /\ outcome.exc = "none"
        /\ ("HIGH UPSTREAM PRESSURE" \in Range(alerts)) <=> (Up > 900)
        /\ ("LOW DOWNSTREAM PRESSURE" \in Range(alerts)) <=> (Down < 650)
        /\ ("HIGH FLOW RATE - POSSIBLE LEAK" \in Range(alerts)) <=> (Flow > 600)
        /\ ("LOW FLOW RATE - POSSIBLE BLOCKAGE" \in Range(alerts)) <=> (Flow < 200)
        /\ Range(alerts) \subseteq {"HIGH UPSTREAM PRESSURE", "LOW DOWNSTREAM PRESSURE",
                                    "HIGH FLOW RATE - POSSIBLE LEAK",
                                    "LOW FLOW RATE - POSSIBLE BLOCKAGE"}
        /\ Len(alerts) = Cardinality(Range(alerts))

C4_Witness ==
    /\ IsReadingMessage
    /\ Up = 900 /\ Down = 650 /\ Flow = 600
    /\ "location" \notin DOMAIN msg.payload.doc.members
    /\ alerts = <<>>

\* C5 as stated: a reading whose flow_rate is 40 plus an offset of at least 20
\* (exactly 20 included) is labelled HIGH FLOW.
C5_OffsetAtLeast20 ==
    (IsReadingMessage /\ Flow - 400 >= 200) =>
        "HIGH FLOW RATE - POSSIBLE LEAK" \in Range(alerts)

\* C5 amended: a reading whose flow_rate is 40 plus an offset strictly above 20
\* is labelled HIGH FLOW; at the offset exactly 20 (flow 60.0) it is not.
C5_OffsetAbove20 ==
    /\ (IsReadingMessage /\ Flow - 400 > 200) =>
            "HIGH FLOW RATE - POSSIBLE LEAK" \in Range(alerts)
    /\ (IsReadingMessage /\ Flow - 400 = 200) =>
            "HIGH FLOW RATE - POSSIBLE LEAK" \notin Range(alerts)

C5_Witness ==
    /\ IsReadingMessage
    /\ Flow = 601
    /\ "HIGH FLOW RATE - POSSIBLE LEAK" \in Range(alerts)

\* C6: every Blockage reading generated from the bases (82.0, 76.0, 40.0),
\* over the whole offset range, is classified as exactly
\* {HIGH UPSTREAM PRESSURE, LOW DOWNSTREAM PRESSURE}.
C6_BlockageRaisesBothLabels ==
    ret.scenario = "blockage" =>
        Range(alerts) = {"HIGH UPSTREAM PRESSURE", "LOW DOWNSTREAM PRESSURE"}

\* C7: every Normal reading generated from the bases (82.0, 76.0, 40.0),
\* whatever the offsets, is classified with the empty alert set.
C7_NormalRaisesNoAlert ==
    ret.scenario = "normal" => alerts = <<>>

C7_Witness ==
    /\ ret.scenario = "normal"
    /\ ret.reading.pressure_upstream.n = 840
    /\ ret.reading.pressure_downstream.n = 740
    /\ ret.reading.flow_rate.n = 430
    /\ alerts = <<>>

----------------------------------------------------------------------------
(* Claims about shutdown and failures *)

\* C8: on an operator interrupt every device unit has released its own
\* connection (loop stopped, disconnect called) before the process exits.
C8_UnitsReleaseBeforeExit ==
    mainpc = "exited" => \A d \in Devices : client[d] # "open"

\* C9: when client.publish reports a failure on a tick, the failure is logged
\* and the loop goes on with the next reading.
C9_PublishFailureLogged ==
    \A d \in Devices :
        (lastrc[d] = "MQTT_ERR_NO_CONN" /\ pc[d] = "loop") =>
            /\ console[d][Len(console[d])].kind = "error"
            /\ console[d][Len(console[d])].counter = Len(published[d])

\* C10: whatever payload arrives on a subscribed topic, the message handler
\* reports and discards it without raising out of the callback, and the
\* subscription loop goes on to the next message.
C10_BadPayloadNotFatal ==
    nmsgs > 0 =>
        /\ outcome.exc = "none"
        /\ dash = "listening"

----------------------------------------------------------------------------
(* Claims about the driver loop's states *)

\* C11: Stopped is terminal: once a unit has received the interrupt and
\* released its connection it generates no further reading, hands nothing more
\* to publish and never runs its loop again.
C11_StoppedIsTerminal ==
    [][\A d \in Devices :
          client[d] = "closed" =>
              /\ pc[d] = "stopped" /\ pc'[d] = "stopped"
              /\ client'[d] = "closed"
              /\ sensor'[d] = sensor[d]
              /\ returned'[d] = returned[d]
              /\ published'[d] = published[d]]_vars

C11_Witness ==
    \E d \in Devices :
        /\ pc[d] = "stopped"
        /\ client[d] = "closed"
        /\ Len(published[d]) >= 1
        /\ console[d][Len(console[d])].kind = "stopped"

\* C12: a driver loop is in Running, and has handed a reading to publish,
\* only with a connection that was opened and accepted by the broker: when the
\* connection attempt failed or the broker rejected the connection, the unit
\* is not in its loop and has published nothing.
C12_RunningOnlyOnceConnected ==
    tlslink \in {"none", "refused"} => (tlspc # "loop" /\ tlsSent = <<>>)

----------------------------------------------------------------------------
(* Claims about the TLS publisher's zones *)

\* C20: the TLS publisher visits the zones in strict round-robin order from
\* the first zone: tick k (from 0) makes one publish call, on the topic of
\* zone k mod 3; zone_index stays within 0..2 and advances on every tick,
\* whether the publish succeeded or failed.
C20_ZonesRoundRobin ==
    LET order == <<<<"grandmarina", "sensors", "main_building", "telemetry">>,
                   <<"grandmarina", "sensors", "pool_spa", "telemetry">>,
                   <<"grandmarina", "sensors", "kitchen", "telemetry">>>>
    IN  /\ zone_index \in 0..2
        /\ \A i \in 1..Len(tlsSent) : tlsSent[i].topic = order[((i - 1) % 3) + 1]
        /\ tlspc \in {"loop", "stopped"} => zone_index = Len(tlsSent) % 3
        /\ tlsSent # <<>> => tlsMsg.topic = tlsSent[Len(tlsSent)].topic

C20_Witness ==
    /\ Len(tlsSent) >= 4
    /\ tlsSent[1].rc = "MQTT_ERR_SUCCESS"
    /\ tlsSent[2].rc = "MQTT_ERR_NO_CONN"
    /\ tlsSent[4].topic = <<"grandmarina", "sensors", "main_building", "telemetry">>
    /\ zone_index = Len(tlsSent) % 3

----------------------------------------------------------------------------
(* Claims about the generated values (tenths) and the frame of a call *)

Within(x, base, r) == base - r <= x /\ x <= base + r

\* C13: every Normal reading has pressure_upstream within 2 of
\* pressure_upstream_base, pressure_downstream within 2 of
\* pressure_downstream_base and flow_rate in [flow_rate_base - 3,
\* flow_rate_base + 3], each a value with one decimal place.
C13_NormalRanges ==
    ret.scenario = "normal" =>
        LET self == sensor[ret.device]
        IN  /\ Within(ret.reading.pressure_upstream.n, self.pressure_upstream_base, 20)
            /\ Within(ret.reading.pressure_downstream.n, self.pressure_downstream_base, 20)
            /\ Within(ret.reading.flow_rate.n, self.flow_rate_base, 30)

C13_Witness ==
    /\ ret.scenario = "normal"
    /\ ret.reading.pressure_upstream.n = 800
    /\ ret.reading.pressure_downstream.n = 780
    /\ ret.reading.flow_rate.n = 370

\* C14: every Stuck reading carries one and the same value in
\* pressure_upstream, pressure_downstream and flow_rate, and that value lies
\* within 2 of pressure_upstream_base.
C14_StuckCollapses ==
    ret.scenario = "stuck" =>
        /\ ret.reading.pressure_upstream.n = ret.reading.pressure_downstream.n
        /\ ret.reading.pressure_downstream.n = ret.reading.flow_rate.n
        /\ Within(ret.reading.pressure_upstream.n, sensor[ret.device].pressure_upstream_base, 20)

C14_Witness ==
    /\ ret.scenario = "stuck"
    /\ ret.reading.pressure_upstream.n = 840
    /\ ret.reading.pressure_downstream.n = 840
    /\ ret.reading.flow_rate.n = 840

\* C15: every Leak reading has flow_rate - flow_rate_base in [40, 80] (the
\* flow is in 80..120 with the base 40.0) and both pressures within 2 of
\* their bases.
C15_LeakRanges ==
    ret.scenario = "leak" =>
        LET self == sensor[ret.device]
        IN  /\ ret.reading.flow_rate.n - self.flow_rate_base >= 400
            /\ ret.reading.flow_rate.n - self.flow_rate_base <= 800
            /\ ret.reading.flow_rate.n \in 800..1200
            /\ Within(ret.reading.pressure_upstream.n, self.pressure_upstream_base, 20)
            /\ Within(ret.reading.pressure_downstream.n, self.pressure_downstream_base, 20)

C15_Witness ==
    /\ ret.scenario = "leak"
    /\ ret.reading.flow_rate.n = 1200
    /\ ret.reading.pressure_upstream.n = 800

\* C16: every reading of the Leak generator, with the default flow base, has
\* a flow_rate strictly greater than 80 gallons/min, the leak definition of
\* the class docstring.
C16_LeakFlowAbove80 ==
    ret.scenario = "leak" => ret.reading.flow_rate.n > 800

\* C18: a generation call of any scenario changes only the reading counter of
\* the sensor: device_id, location, topic and the three baseline values are
\* after any sequence of calls what the constructor set.
C18_OnlyCountChanges ==
    \A d \in Devices :
        /\ [sensor[d] EXCEPT !.count = 0] = NewSensor(d)
        /\ sensor[d].count = Len(returned[d])

C18_Witness ==
    /\ sensor[1].count = 3
    /\ ret.scenario = "blockage"
    /\ sensor[1].flow_rate_base = flow_rate_base
    /\ sensor[1].topic = <<"hydroficient", "grandmarina", "sensors", locations[1], "readings">>

----------------------------------------------------------------------------
(* Claims about topics and dispatch *)

\* a topic built by WaterSensor.__init__ for some location
IsWaterSensorTopic(t) ==
    /\ Len(t) >= 5
    /\ SubSeq(t, 1, 3) = <<"hydroficient", "grandmarina", "sensors">>
    /\ t[Len(t)] = "readings"

\* C17: the topic hydroficient/grandmarina/sensors/<location>/readings of any
\* WaterSensor, for any location, is covered by the dashboard's wildcard
\* subscription, and a message on it is dispatched by on_message to
\* handle_sensor_reading, never to the alert, command, status or unknown branch.
C17_SensorTopicsReachSensorHandler ==
    /\ \A d \in Devices : Matches(Subscription, NewSensor(d).topic)
    /\ \A l \in OtherLocations : Matches(Subscription, LocationTopic(l))
    /\ (nmsgs > 0 /\ IsWaterSensorTopic(msg.topic)) =>
           /\ Matches(Subscription, msg.topic)
           /\ outcome.handler = "sensor"

C17_Witness ==
    /\ nmsgs > 0
    /\ msg.topic = <<"hydroficient", "grandmarina", "sensors", "east", "alerts", "pump", "readings">>
    /\ outcome.handler = "sensor"
    /\ outcome.report = "reading"

\* C19: on_message gives every received message to exactly one handler, the
\* first in the order /sensors/, /alerts/, /commands/, /status/ whose
\* substring the topic contains; a topic containing several goes to the
\* earliest, a topic containing none is reported unknown and handled by none.
C19_FirstMatchDispatch ==
    nmsgs > 0 =>
        LET t == msg.topic
            first == CASE Contains(t, "sensors") -> "sensor"
                       [] ~Contains(t, "sensors") /\ Contains(t, "alerts") -> "alert"
                       [] ~Contains(t, "sensors") /\ ~Contains(t, "alerts")
                            /\ Contains(t, "commands") -> "command"
                       [] ~Contains(t, "sensors") /\ ~Contains(t, "alerts")
                            /\ ~Contains(t, "commands") /\ Contains(t, "status") -> "status"
                       [] OTHER -> "unknown"
        IN  /\ outcome.handler = first
            /\ first = "unknown" => outcome.report = "unknown" /\ outcome.exc = "none"

C19_Witness ==
    /\ nmsgs = 2
    /\ msg.topic = <<"hydroficient", "grandmarina", "alerts", "sensors", "x">>
    /\ outcome.handler = "sensor"

----------------------------------------------------------------------------
(* Claims about the classification of generated anomalies *)

\* C21: every Stuck reading generated from the default bases is classified as
\* exactly {HIGH FLOW RATE - POSSIBLE LEAK}: the one value of its three fields
\* (80.0 to 84.0) is above the flow threshold 60, not above the upstream
\* threshold 90 and not below the downstream threshold 65.
C21_StuckRaisesOnlyHighFlow ==
    ret.scenario = "stuck" =>
        /\ alerts = <<"HIGH FLOW RATE - POSSIBLE LEAK">>
        /\ ret.reading.flow_rate.n > HighFlow
        /\ ret.reading.pressure_upstream.n <= HighUpstream
        /\ ret.reading.pressure_downstream.n >= LowDownstream
        /\ ret.reading.flow_rate.n \in 800..840

C21_Witness ==
    /\ ret.scenario = "stuck"
    /\ ret.reading.flow_rate.n = 800
    /\ ret.reading.pressure_downstream.n = 800
    /\ alerts = <<"HIGH FLOW RATE - POSSIBLE LEAK">>

----------------------------------------------------------------------------
(* Claims about the experiment runner *)

\* C22: when run_latency_test(count) has sent its messages and reports, the
\* list self.latencies holds exactly count entries, one per sent message in
\* send order, whatever the interleaving with _on_message.
C22_OneSamplePerSend ==
    (exppc = "returned" /\ experiment.name = "latency" /\ expsent = experiment.count) =>
        /\ Len(latencies) = experiment.count
        /\ \A i \in 1..Len(latencies) : latencies[i].seq = i - 1

\* C23: whenever an experiment has returned, the network loop it started is
\* stopped and the client disconnected, also when connect() returned False.
C23_ReleasedOnReturn ==
    (exppc = "returned" /\ expclient.loop # "none") =>
        /\ expclient.loop = "stopped"
        /\ expclient.link = "closed"

=============================================================================
